---------------------------- MODULE Spec2Model ----------------------------
(***************************************************************************)
(* TaalQuest: scenario generation (web server and desktop app) and the     *)
(* playback sequencer.                                                     *)
(*                                                                         *)
(* The repository holds two programs and one component with a public API:  *)
(*   "web"     server/app.py + server/openai_client.py (Flask handlers)    *)
(*   "desktop" src/taalquest/main.py + script_generator.py +               *)
(*             tts_generator.py (TaalQuestApp.generate_new_scenario)       *)
(*   "player"  src/taalquest/audio_player.py (AudioPlayer, driven through  *)
(*             its public methods)                                         *)
(* and "threads" is the web server again, with its audio routes handled    *)
(* by concurrent threads (Flask's app.run serves each request in a thread  *)
(* of its own) at the grain of their file operations, and "playback" is    *)
(* the desktop app again, from its first scenario on, with the handlers    *)
(* of its buttons and of its playback timer.                               *)
(* The variable `program` says which of them a behaviour is a run of.      *)
(***************************************************************************)
EXTENDS Integers, Sequences, FiniteSets, TLC

(***************************************************************************)
(* Bounds of the model.                                                    *)
(***************************************************************************)
MaxSeqLen == 2      \* longest list handed to play_sequence
MaxLocs == 2        \* most locations in data/locations.json
MaxRoster == 2      \* most characters handed to OpenAIClient
MaxClock == 1       \* seconds the clock read by TTSGenerator can advance
MaxThreads == 2     \* requests the web server handles at the same time

(***************************************************************************)
(* Program constants.                                                      *)
(***************************************************************************)
DefaultPauseMs == 500
MinLines == 4       \* Script.dialogue min_length
MaxLines == 8       \* Script.dialogue max_length
NoneId == 0         \* a request field that is absent (None)
EmptyId == -1       \* a request field that is the empty string

VARIABLES
    program,               \* "web" | "desktop" | "player" | "threads" | "playback"
    \* ---- AudioPlayer (audio_player.py) ----
    current_sequence,      \* self.current_sequence
    current_index,         \* self.current_index
    is_playing_sequence,   \* self.is_playing_sequence
    pause_duration_ms,     \* self.pause_duration_ms
    current_process,       \* self.current_process: <<>> is None, else <<[file, st]>>
    output_dir,            \* the audio files that exist on disk (generated/audio)
    ret,                   \* what the last AudioPlayer call did and returned
    afplay_running,        \* how many afplay processes the player started are running
    run_log,               \* the indices whose file the current sequence has started
    \* ---- data files and the web server (app.py, openai_client.py) ----
    LOCATIONS,             \* data/locations.json as loaded
    characters,            \* OpenAIClient.characters (characters_data or [])
    audio_cache,           \* audio_cache_dir: filename -> the audio stored there
    synthesized,           \* generate_audio calls that have returned so far
    response,              \* the last request to the server and its response
    threads,               \* the request each server thread handles, and where it is
    served,                \* the last GET /api/audio/<filename> and what it sent
    \* ---- the desktop app (main.py) ----
    last_location_id,      \* self.last_location_id (NoneId: None)
    current_script,        \* self.current_script: <<>> is None, else <<script>>
    current_audio_files,   \* self.current_audio_files
    window,                \* the state GameWindow was last set to
    update_timer_id,       \* self.update_timer_id: a playback poll is scheduled
    clock,                 \* int(time.time())
    outcome                \* how the last generate_new_scenario went

playerVars == <<current_sequence, current_index, is_playing_sequence,
                pause_duration_ms, current_process>>

webVars == <<audio_cache, synthesized, response, threads, served>>

desktopVars == <<last_location_id, current_script, current_audio_files, window,
                 update_timer_id, clock, outcome>>

vars == <<program, current_sequence, current_index, is_playing_sequence,
          pause_duration_ms, current_process, output_dir, ret, afplay_running, run_log,
          LOCATIONS, characters, audio_cache, synthesized, response, threads, served,
          last_location_id, current_script, current_audio_files, window,
          update_timer_id, clock, outcome>>

(***************************************************************************)
(* Audio paths.  TTSGenerator names a file after the second it was made    *)
(* in, the voice and the hash of the text: <<timestamp, voice_id, hash>>.  *)
(***************************************************************************)
\* hashlib.md5(text.encode()).hexdigest()[:n]: the first n hex digits of
\* text's MD5, taken to differ for the different texts of the model.
Md5Prefix(text, n) == <<"md5", n, text>>

\* The dialogue texts of the model ("" is no text).
Texts == {"Goedemorgen", "Dank u wel"}

TextOfLine(i) == IF i % 2 = 1 THEN "Goedemorgen" ELSE "Dank u wel"

PlayerPaths == {<<0, 0, Md5Prefix(t, 8)>> : t \in Texts}

SeqsUpTo(S, n) == UNION {[1..k -> S] : k \in 0..n}

None == <<>>

(***************************************************************************)
(* AudioPlayer                                                             *)
(***************************************************************************)
Running(proc) == proc # None /\ proc[1].st = "running"     \* poll() is None
Exited(proc) == proc # None /\ proc[1].st = "exited"       \* poll() is not None

\* play_audio as it would be if it started the new process without
\* terminating the one that is running.
play_audio_NoTerminate(filepath, popen_ok, proc, disk) ==
    IF filepath \notin disk
    THEN [ok |-> FALSE, proc |-> proc, terminated |-> FALSE, started |-> FALSE]
    ELSE IF popen_ok
    THEN [ok |-> TRUE, proc |-> <<[file |-> filepath, st |-> "running"]>>,
          terminated |-> FALSE, started |-> TRUE]
    ELSE [ok |-> FALSE, proc |-> proc, terminated |-> FALSE, started |-> FALSE]

\* play_audio(filepath): the process the player holds afterwards, whether a
\* process was terminated and whether one was started, and the return value.
\* popen_ok = FALSE: subprocess.Popen raises (afplay missing, fork failure).
play_audio(filepath, popen_ok, proc, disk) ==
    IF filepath \notin disk
    THEN [ok |-> FALSE, proc |-> proc, terminated |-> FALSE, started |-> FALSE]
    ELSE LET term == Running(proc)
             old == IF term THEN <<[proc[1] EXCEPT !.st = "exited"]>> ELSE proc
         IN  IF popen_ok
             THEN [ok |-> TRUE, proc |-> <<[file |-> filepath, st |-> "running"]>>,
                   terminated |-> term, started |-> TRUE]
             ELSE [ok |-> FALSE, proc |-> old, terminated |-> term, started |-> FALSE]

\* The record of a call: its name, what it was given ("empty": an empty
\* list, "missing": a list naming a file that is not on disk, "valid": any
\* other list, "-": no list), what it returned or raised, and what it did
\* to audio processes.
Ret(op, input, result, started, terminated, completed) ==
    [op |-> op, input |-> input, result |-> result, started |-> started,
     terminated |-> terminated, completed |-> completed]

\* The afplay processes running after a call that found n of them running.
Live(n, started, terminated) ==
    n + (IF started THEN 1 ELSE 0) - (IF terminated THEN 1 ELSE 0)

\* The indices started in the current sequence after a call that left the
\* record r and the index at `index`: play_sequence begins the list anew when
\* it takes a sequence, and every start adds the index it was made for.
RunLog(log, r, index) ==
    IF r.op = "play_sequence" /\ r.input = "valid"
    THEN IF r.started THEN <<index>> ELSE <<>>
    ELSE IF r.started THEN Append(log, index) ELSE log

InputKind(filepaths, disk) ==
    IF filepaths = <<>> THEN "empty"
    ELSE IF \E i \in 1..Len(filepaths) : filepaths[i] \notin disk THEN "missing"
    ELSE "valid"

\* play_sequence as it would be if it recorded the sequence before looking at
\* the files: a rejected list then replaces the sequence being played.
play_sequence_AssignsFirst(filepaths, pause_ms, popen_ok) ==
    /\ program = "player"
    /\ IF filepaths = <<>>
       THEN /\ ret' = Ret("play_sequence", "empty", "False", FALSE, FALSE, FALSE)
            /\ UNCHANGED playerVars
       ELSE /\ current_sequence' = filepaths
            /\ current_index' = 0
            /\ pause_duration_ms' = pause_ms
            /\ is_playing_sequence' = TRUE
            /\ IF \E i \in 1..Len(filepaths) : filepaths[i] \notin output_dir
               THEN /\ ret' = Ret("play_sequence", "missing", "FileNotFoundError",
                                  FALSE, FALSE, FALSE)
                    /\ UNCHANGED current_process
               ELSE LET r == play_audio(filepaths[1], popen_ok, current_process,
                                        output_dir)
                    IN  /\ current_process' = r.proc
                        /\ ret' = Ret("play_sequence", "valid",
                                      IF r.ok THEN "True" ELSE "False",
                                      r.started, r.terminated, FALSE)
    /\ afplay_running' = Live(afplay_running, ret'.started, ret'.terminated)
    /\ run_log' = RunLog(run_log, ret', current_index')
    /\ UNCHANGED <<program, output_dir, LOCATIONS, characters, webVars,
                   desktopVars>>

AudioPlayer_play_sequence(filepaths, pause_ms, popen_ok) ==
    /\ IF filepaths = <<>>
       THEN /\ ret' = Ret("play_sequence", InputKind(filepaths, output_dir), "False", FALSE, FALSE, FALSE)
            /\ UNCHANGED playerVars
       ELSE IF \E i \in 1..Len(filepaths) : filepaths[i] \notin output_dir
       THEN /\ ret' = Ret("play_sequence", InputKind(filepaths, output_dir),
                       "FileNotFoundError", FALSE, FALSE, FALSE)
            /\ UNCHANGED playerVars
       ELSE LET r == play_audio(filepaths[1], popen_ok, current_process, output_dir)
            IN  /\ current_sequence' = filepaths
                /\ current_index' = 0
                /\ pause_duration_ms' = pause_ms
                /\ is_playing_sequence' = TRUE
                /\ current_process' = r.proc
                /\ ret' = Ret("play_sequence", InputKind(filepaths, output_dir),
                              IF r.ok THEN "True" ELSE "False",
                              r.started, r.terminated, FALSE)
    /\ afplay_running' = Live(afplay_running, ret'.started, ret'.terminated)
    /\ run_log' = RunLog(run_log, ret', current_index')

\* A call of play_sequence by a user of the AudioPlayer alone.
play_sequence(filepaths, pause_ms, popen_ok) ==
    /\ program = "player"
    /\ AudioPlayer_play_sequence(filepaths, pause_ms, popen_ok)
    /\ UNCHANGED <<program, output_dir, LOCATIONS, characters, webVars,
                   desktopVars>>

\* update_sequence_playback as it would be if it took a process it holds for
\* finished without polling it.
update_sequence_playback_NoPoll(popen_ok) ==
    /\ program = "player"
    /\ IF ~is_playing_sequence
       THEN /\ ret' = Ret("update_sequence_playback", "-", "False", FALSE, FALSE, FALSE)
            /\ UNCHANGED playerVars
       ELSE IF current_process # None
       THEN IF current_index + 1 >= Len(current_sequence)
            THEN /\ current_index' = current_index + 1
                 /\ is_playing_sequence' = FALSE
                 /\ current_process' = None
                 /\ ret' = Ret("update_sequence_playback", "-", "False", FALSE,
                               Running(current_process), TRUE)
                 /\ UNCHANGED <<current_sequence, pause_duration_ms>>
            ELSE LET r == play_audio(current_sequence[current_index + 2], popen_ok,
                                     current_process, output_dir)
                 IN  /\ current_index' = current_index + 1
                     /\ current_process' = r.proc
                     /\ ret' = Ret("update_sequence_playback", "-", "True",
                                   r.started, r.terminated, FALSE)
                     /\ UNCHANGED <<current_sequence, pause_duration_ms,
                                    is_playing_sequence>>
       ELSE /\ ret' = Ret("update_sequence_playback", "-", "True", FALSE, FALSE, FALSE)
            /\ UNCHANGED playerVars
    /\ afplay_running' = Live(afplay_running, ret'.started, ret'.terminated)
    /\ run_log' = RunLog(run_log, ret', current_index')
    /\ UNCHANGED <<program, output_dir, LOCATIONS, characters, webVars,
                   desktopVars>>

\* update_sequence_playback as it would be if it left is_playing_sequence set
\* when the index passes the end of the sequence.
update_sequence_playback_KeepsFlag(popen_ok) ==
    /\ program = "player"
    /\ IF ~is_playing_sequence
       THEN /\ ret' = Ret("update_sequence_playback", "-", "False", FALSE, FALSE, FALSE)
            /\ UNCHANGED playerVars
       ELSE IF Exited(current_process)
       THEN IF current_index + 1 >= Len(current_sequence)
            THEN /\ current_index' = current_index + 1
                 /\ current_process' = None
                 /\ ret' = Ret("update_sequence_playback", "-", "False", FALSE, FALSE, TRUE)
                 /\ UNCHANGED <<current_sequence, pause_duration_ms, is_playing_sequence>>
            ELSE LET r == play_audio(current_sequence[current_index + 2], popen_ok,
                                     current_process, output_dir)
                 IN  /\ current_index' = current_index + 1
                     /\ current_process' = r.proc
                     /\ ret' = Ret("update_sequence_playback", "-", "True",
                                   r.started, r.terminated, FALSE)
                     /\ UNCHANGED <<current_sequence, pause_duration_ms,
                                    is_playing_sequence>>
       ELSE /\ ret' = Ret("update_sequence_playback", "-", "True", FALSE, FALSE, FALSE)
            /\ UNCHANGED playerVars
    /\ afplay_running' = Live(afplay_running, ret'.started, ret'.terminated)
    /\ run_log' = RunLog(run_log, ret', current_index')
    /\ UNCHANGED <<program, output_dir, LOCATIONS, characters, webVars,
                   desktopVars>>

AudioPlayer_update_sequence_playback(popen_ok) ==
    /\ IF ~is_playing_sequence
       THEN /\ ret' = Ret("update_sequence_playback", "-", "False", FALSE, FALSE, FALSE)
            /\ UNCHANGED playerVars
       ELSE IF Exited(current_process)
       THEN IF current_index + 1 >= Len(current_sequence)
            THEN /\ current_index' = current_index + 1
                 /\ is_playing_sequence' = FALSE
                 /\ current_process' = None
                 /\ ret' = Ret("update_sequence_playback", "-", "False", FALSE, FALSE, TRUE)
                 /\ UNCHANGED <<current_sequence, pause_duration_ms>>
            ELSE LET r == play_audio(current_sequence[current_index + 2], popen_ok,
                                     current_process, output_dir)
                 IN  /\ current_index' = current_index + 1
                     /\ current_process' = r.proc
                     /\ ret' = Ret("update_sequence_playback", "-", "True",
                                   r.started, r.terminated, FALSE)
                     /\ UNCHANGED <<current_sequence, pause_duration_ms,
                                    is_playing_sequence>>
       ELSE /\ ret' = Ret("update_sequence_playback", "-", "True", FALSE, FALSE, FALSE)
            /\ UNCHANGED playerVars
    /\ afplay_running' = Live(afplay_running, ret'.started, ret'.terminated)
    /\ run_log' = RunLog(run_log, ret', current_index')

\* A call of update_sequence_playback by a user of the AudioPlayer alone.
update_sequence_playback(popen_ok) ==
    /\ program = "player"
    /\ AudioPlayer_update_sequence_playback(popen_ok)
    /\ UNCHANGED <<program, output_dir, LOCATIONS, characters, webVars,
                   desktopVars>>

AudioPlayer_stop_audio ==
    /\ current_process' = IF Running(current_process) THEN None ELSE current_process
    /\ is_playing_sequence' = FALSE
    /\ current_index' = 0
    /\ ret' = Ret("stop_audio", "-", "None", FALSE, Running(current_process), FALSE)
    /\ afplay_running' = Live(afplay_running, ret'.started, ret'.terminated)
    /\ run_log' = RunLog(run_log, ret', current_index')
    /\ UNCHANGED <<current_sequence, pause_duration_ms>>

\* A call of stop_audio by a user of the AudioPlayer alone.
stop_audio ==
    /\ program = "player"
    /\ AudioPlayer_stop_audio
    /\ UNCHANGED <<program, output_dir, LOCATIONS, characters, webVars, desktopVars>>

is_playing == Running(current_process) \/ is_playing_sequence

\* get_playback_progress as it would be without the test of
\* is_playing_sequence.
get_playback_progress_IgnoringFlag ==
    IF current_sequence = <<>>
    THEN None
    ELSE <<current_index + 1, Len(current_sequence)>>

\* get_playback_progress(): None, or the fraction (current_index + 1) / len as
\* <<numerator, denominator>>.
get_playback_progress ==
    IF ~is_playing_sequence \/ current_sequence = <<>>
    THEN None
    ELSE <<current_index + 1, Len(current_sequence)>>

\* The fraction p is 1.0.
IsOne(p) == p # None /\ p[1] = p[2]

(***************************************************************************)
(* Environment of the player: afplay exits by itself; a file is deleted.   *)
(***************************************************************************)
ProcessExits ==
    /\ program \in {"player", "playback"}
    /\ Running(current_process)
    /\ current_process' = <<[current_process[1] EXCEPT !.st = "exited"]>>
    /\ ret' = [ret EXCEPT !.op = "env"]
    /\ afplay_running' = afplay_running - 1
    /\ UNCHANGED run_log
    /\ UNCHANGED <<program, current_sequence, current_index, is_playing_sequence,
                   pause_duration_ms, output_dir, LOCATIONS, characters, webVars,
                   desktopVars>>

RemoveFile(p) ==
    /\ program \in {"player", "playback"}
    /\ p \in output_dir
    /\ output_dir' = output_dir \ {p}
    /\ ret' = [ret EXCEPT !.op = "env"]
    /\ UNCHANGED <<program, playerVars, afplay_running, run_log, LOCATIONS, characters, webVars,
                   desktopVars>>

(***************************************************************************)
(* Reference data: locations and the character roster                      *)
(***************************************************************************)
\* Location i of data/locations.json; ids are unique.
Location(i) == [id |-> i]

\* Character i of a roster: characters 2k-1 and 2k belong to location k, and
\* voices alternate.
Character(i) ==
    [id |-> i, name |-> i, voice_id |-> (i - 1) % 2, locations |-> {(i + 1) \div 2}]

Roster(n) == [i \in 1..n |-> Character(i)]

\* app.py and pregenerate_scenario.py construct OpenAIClient without
\* characters_data, so that self.characters is [].
AppRoster == Roster(0)

Range(f) == {f[i] : i \in DOMAIN f}

\* The sequences of k different elements of the sequence pool: what
\* random.sample(pool, k) can return.
Samples(pool, k) ==
    {[i \in 1..k |-> pool[ix[i]]] :
        ix \in {f \in [1..k -> DOMAIN pool] :
                   \A a, b \in 1..k : a # b => f[a] # f[b]}}

(***************************************************************************)
(* The language-model backend's responses                                  *)
(***************************************************************************)
AllKeys == {"situation", "characters", "dialogue"}

\* A dialogue of n lines.  "two": the two speakers 1 and 2 alternate;
\* "drift": so too, but line 3 is spoken by a third name.
Dialogue(n, pat) ==
    [i \in 1..n |->
        [speaker |-> IF pat = "drift" /\ i = 3 THEN 3 ELSE 1 + ((i - 1) % 2),
         text |-> TextOfLine(i)]]

\* A response: its form ("object": a bare JSON object; "fenced": the object
\* in a ```json block; "prose": the object inside other text; "array": a JSON
\* value that is not an object; "nobrace": text without braces; "garbled":
\* braces around invalid JSON; "unreachable": the request raises) and, for the
\* forms that hold an object, the keys it has and their values.
Doc(form, keys, chars, n, pat) ==
    [form |-> form, keys |-> keys, characters |-> chars, dialogue |-> Dialogue(n, pat)]

DialogueLens == {MinLines - 1, MinLines, MaxLines, MaxLines + 1}

Responses ==
    {Doc("object", AllKeys, <<1, 2>>, n, "two") : n \in DialogueLens}
    \cup {Doc("object", AllKeys, <<1, 2>>, MinLines, "drift")}
    \cup {Doc("object", AllKeys \ {k}, <<1, 2>>, MinLines, "two") : k \in AllKeys}
    \cup {Doc("object", AllKeys, cs, MinLines, "two") : cs \in {<<1>>, <<1, 2, 3>>}}
    \cup {Doc(f, AllKeys, <<1, 2>>, MinLines, "two") :
            f \in {"fenced", "prose", "array", "nobrace", "garbled", "unreachable"}}

\* What a handler's record keeps of the backends' behaviour during the call:
\* the response's form, keys and number of characters, and whether speech
\* synthesis was made to fail at some line.
Backend(resp, fail_at) ==
    [form |-> resp.form, keys |-> resp.keys, nchars |-> Len(resp.characters),
     speech_fails |-> fail_at # 0]

NoBackend == [form |-> "-", keys |-> {}, nchars |-> 0, speech_fails |-> FALSE]

PlainResponses ==
    {Doc(f, AllKeys, <<1, 2>>, MinLines, "two") : f \in {"object", "unreachable"}}

\* The lines at which the speech backend is made to fail: none, the first,
\* the second (the first one that follows a line already synthesized).  A
\* later line of the model's dialogues repeats the text and voice of one of
\* the first two, so the backend is never asked for it.
FailPoints(n) == {0, 1, 2} \cap 0..n

(***************************************************************************)
(* OpenAIClient (server/openai_client.py)                                  *)
(***************************************************************************)
voice_map(voice_id) == IF voice_id = 1 THEN "echo" ELSE "alloy"

\* The selections _select_characters_for_location can return.
_select_characters_for_location(location_id) ==
    LET assoc == SelectSeq(characters, LAMBDA c : location_id \in c.locations)
        location_characters == IF Len(assoc) < 2 THEN characters ELSE assoc
        count == IF 2 < Len(location_characters) THEN 2 ELSE Len(location_characters)
    IN  {[i \in DOMAIN sel |->
            [id |-> sel[i].id, name |-> sel[i].name, voice_id |-> sel[i].voice_id]] :
         sel \in Samples(location_characters, count)}

\* The voice of a speaker: voice_map_char.get(speaker, 0).
VoiceOfSpeaker(selected, speaker) ==
    IF \E i \in DOMAIN selected : selected[i].name = speaker
    THEN selected[CHOOSE i \in DOMAIN selected : selected[i].name = speaker].voice_id
    ELSE 0

Fail(error, llm_calls) ==
    [ok |-> FALSE, error |-> error, script |-> <<>>, llm_calls |-> llm_calls]

\* generate_script(location) with the characters drawn and the backend's
\* response: the script returned, or the exception raised.
generate_script(location, selected, resp) ==
    IF Len(selected) < 2 THEN Fail("IndexError", 0)
    ELSE IF resp.form = "unreachable" THEN Fail("Script generation failed", 1)
    ELSE IF resp.form \notin {"object", "array"} THEN Fail("Script generation failed", 1)
    ELSE IF resp.form = "array" THEN Fail("Script generation failed", 1)
    ELSE IF "dialogue" \notin resp.keys THEN Fail("Script generation failed", 1)
    ELSE [ok |-> TRUE, error |-> "",
          script |-> <<[keys |-> resp.keys \cup {"characters"},
                        characters |-> selected,
                        dialogue |-> [i \in DOMAIN resp.dialogue |->
                            [speaker |-> resp.dialogue[i].speaker,
                             text |-> resp.dialogue[i].text,
                             voice_id |-> VoiceOfSpeaker(selected,
                                                         resp.dialogue[i].speaker)]]]>>,
          llm_calls |-> 1]

CacheFilename(text, voice_id) == <<Md5Prefix(text, 12), voice_id>>

\* generate_audio as it would be without the lookup of the cached file: every
\* call asks the speech backend and writes the file.
generate_audio_NoLookup(text, voice_id, cache, speech_ok) ==
    LET filename == CacheFilename(text, voice_id)
        entry == [text |-> text, voice |-> voice_map(voice_id)]
    IN  IF speech_ok
        THEN [ok |-> TRUE, filename |-> filename,
              cache |-> [f \in DOMAIN cache \cup {filename} |->
                            IF f = filename THEN entry ELSE cache[f]],
              tts_calls |-> 1]
        ELSE [ok |-> FALSE, filename |-> filename, cache |-> cache, tts_calls |-> 1]

\* generate_audio(text, voice_id) on the cache given; speech_ok = FALSE: the
\* speech backend raises.
generate_audio(text, voice_id, cache, speech_ok) ==
    LET filename == CacheFilename(text, voice_id)
    IN  IF filename \in DOMAIN cache
        THEN [ok |-> TRUE, filename |-> filename, cache |-> cache, tts_calls |-> 0]
        ELSE IF speech_ok
        THEN [ok |-> TRUE, filename |-> filename,
              cache |-> cache @@ (filename :> [text |-> text, voice |-> voice_map(voice_id)]),
              tts_calls |-> 1]
        ELSE [ok |-> FALSE, filename |-> filename, cache |-> cache, tts_calls |-> 1]

\* generate_scenario_audio as it would be if it skipped a line whose
\* synthesis fails and went on with the next ones.
RECURSIVE ScenarioAudioSkipping(_, _, _, _, _, _, _)
ScenarioAudioSkipping(dialogue, i, fail_at, cache, audio_files, tts_calls, called) ==
    IF i > Len(dialogue)
    THEN [ok |-> Len(audio_files) = Len(dialogue),
          audio_files |-> IF Len(audio_files) = Len(dialogue) THEN audio_files ELSE <<>>,
          cache |-> cache, done |-> {}, tts_calls |-> tts_calls,
          failed_line |-> IF Len(audio_files) = Len(dialogue) THEN 0 ELSE fail_at,
          called |-> called]
    ELSE LET r == generate_audio(dialogue[i].text, dialogue[i].voice_id, cache,
                                 i # fail_at)
         IN  ScenarioAudioSkipping(dialogue, i + 1, fail_at, r.cache,
                                   IF r.ok THEN Append(audio_files, r.filename)
                                           ELSE audio_files,
                                   tts_calls + r.tts_calls, Append(called, i))

generate_scenario_audio_GoingOn(script, fail_at, cache) ==
    ScenarioAudioSkipping(script.dialogue, 1, fail_at, cache, <<>>, 0, <<>>)

\* The loop of generate_scenario_audio from line i on; the speech backend
\* raises at line fail_at if it is asked for that line (0: it never raises).
\* The result carries the calls of generate_audio that returned (done) and
\* the number of requests made to the speech backend (tts_calls), the
\* lines generate_audio was called for, in the order of the calls (called),
\* and the line whose call raised (failed_line, 0: none).
RECURSIVE ScenarioAudioFrom(_, _, _, _, _, _, _, _)
ScenarioAudioFrom(dialogue, i, fail_at, cache, audio_files, done, tts_calls, called) ==
    IF i > Len(dialogue)
    THEN [ok |-> TRUE, audio_files |-> audio_files, cache |-> cache, done |-> done,
          tts_calls |-> tts_calls, failed_line |-> 0, called |-> called]
    ELSE LET r == generate_audio(dialogue[i].text, dialogue[i].voice_id, cache,
                                 i # fail_at)
         IN  IF ~r.ok
             THEN [ok |-> FALSE, audio_files |-> <<>>, cache |-> r.cache, done |-> done,
                   tts_calls |-> tts_calls + r.tts_calls, failed_line |-> i,
                   called |-> Append(called, i)]
             ELSE ScenarioAudioFrom(dialogue, i + 1, fail_at, r.cache,
                                    Append(audio_files, r.filename),
                                    done \cup {<<dialogue[i].text, dialogue[i].voice_id,
                                                 r.filename>>},
                                    tts_calls + r.tts_calls, Append(called, i))

generate_scenario_audio(script, fail_at, cache) ==
    ScenarioAudioFrom(script.dialogue, 1, fail_at, cache, <<>>, {}, 0, <<>>)

(***************************************************************************)
(* The Flask handlers (server/app.py)                                      *)
(***************************************************************************)
Threads == 1..MaxThreads

\* A thread: where it is in the request it handles (pc), the request's text
\* and voice_id, and how the last request it handled ended.
IdleThread == [pc |-> "idle", text |-> "", voice_id |-> 0, result |-> "-"]

\* What GET /api/audio/<filename> answered: the status, and whether the file
\* it sent was complete.
Served(filename, status, complete) ==
    [filename |-> filename, status |-> status, complete |-> complete]

Falsy(id) == id \in {NoneId, EmptyId}

\* The locations generate_scenario can pick when no location_id is given.
AvailableLocations(exclude_id) ==
    LET available == SelectSeq(LOCATIONS, LAMBDA loc : loc.id # exclude_id)
    IN  IF available = <<>> THEN LOCATIONS ELSE available

\* next((loc for loc in LOCATIONS if loc["id"] == location_id), None)
FindLocation(location_id) ==
    LET found == SelectSeq(LOCATIONS, LAMBDA loc : loc.id = location_id)
    IN  IF found = <<>> THEN None ELSE <<found[1]>>

\* A request and its response.  chosen: the handler's variable `location`
\* (None if it got none); llm_calls, tts_calls: the requests made to the
\* language-model and the speech backend while handling it; selected: what
\* _select_characters_for_location returned to generate_script.
Response(op, location_id, exclude_id, status, chosen, script, audio_files, llm_calls, tts_calls) ==
    [op |-> op, location_id |-> location_id, exclude_id |-> exclude_id,
     status |-> status, chosen |-> chosen, script |-> script,
     audio_files |-> audio_files, llm_calls |-> llm_calls, tts_calls |-> tts_calls,
     text |-> "", voice_id |-> 0, filename |-> None, backend |-> NoBackend,
     failed_line |-> 0, called |-> <<>>, selected |-> <<>>]

AudioResponse(text, voice_id, status, filename, tts_calls) ==
    [Response("generate_audio", NoneId, NoneId, status, None, None, <<>>, 0, tts_calls)
        EXCEPT !.text = text, !.voice_id = voice_id, !.filename = filename]

\* The values the handler's variable `location` can take: the location
\* random.choice draws, or the one looked up (None when there is none).
ChosenLocations(location_id, exclude_id) ==
    IF Falsy(location_id)
    THEN {<<loc>> : loc \in Range(AvailableLocations(exclude_id))}
    ELSE {FindLocation(location_id)}

\* POST /api/generate-scenario with the body {location_id, exclude_location_id}.
\* resp: the language model's response; fail_at: the dialogue line at which
\* the speech backend raises (0: none).  The draws of random.choice and
\* random.sample are chosen inside.
generate_scenario(location_id, exclude_id, resp, fail_at) ==
    /\ program = "web"
    /\ \E location \in ChosenLocations(location_id, exclude_id) :
          IF location = None
          THEN /\ response' = Response("generate_scenario", location_id, exclude_id,
                                       404, None, None, <<>>, 0, 0)
               /\ UNCHANGED <<audio_cache, synthesized>>
          ELSE \E selected \in _select_characters_for_location(location[1].id) :
               \E s \in {generate_script(location[1], selected, resp)} :
                 IF ~s.ok
                 THEN /\ fail_at = 0      \* the speech backend is not reached
                      /\ response' =
                           [Response("generate_scenario", location_id, exclude_id,
                                     500, location, None, <<>>, s.llm_calls, 0)
                              EXCEPT !.backend = Backend(resp, fail_at),
                                     !.selected = selected]
                      /\ UNCHANGED <<audio_cache, synthesized>>
                 ELSE \E a \in {generate_scenario_audio(s.script[1], fail_at,
                                                        audio_cache)} :
                      /\ audio_cache' = a.cache
                      /\ synthesized' = synthesized \cup a.done
                      /\ response' =
                           [(IF a.ok
                             THEN Response("generate_scenario", location_id,
                                      exclude_id, 200, location, s.script,
                                      a.audio_files, s.llm_calls, a.tts_calls)
                             ELSE Response("generate_scenario", location_id,
                                      exclude_id, 500, location, None, <<>>,
                                      s.llm_calls, a.tts_calls))
                              EXCEPT !.backend = Backend(resp, fail_at),
                                     !.failed_line = a.failed_line,
                                     !.called = a.called,
                                     !.selected = selected]
    /\ UNCHANGED <<program, playerVars, afplay_running, run_log, output_dir, ret, LOCATIONS, characters,
                   desktopVars, threads, served>>

\* POST /api/generate-audio with the body {text, voice_id}.
generate_audio_request(text, voice_id, speech_ok) ==
    /\ program = "web"
    /\ IF text = ""
       THEN /\ response' = AudioResponse(text, voice_id, 400, None, 0)
            /\ UNCHANGED <<audio_cache, synthesized>>
       ELSE \E r \in {generate_audio(text, voice_id, audio_cache, speech_ok)} :
            /\ audio_cache' = r.cache
            /\ synthesized' = IF r.ok THEN synthesized \cup {<<text, voice_id, r.filename>>}
                                      ELSE synthesized
            /\ response' = IF r.ok
                           THEN AudioResponse(text, voice_id, 200, r.filename, r.tts_calls)
                           ELSE AudioResponse(text, voice_id, 500, None, r.tts_calls)
    /\ UNCHANGED <<program, playerVars, afplay_running, run_log, output_dir, ret, LOCATIONS, characters,
                   desktopVars, threads, served>>

(***************************************************************************)
(* The audio routes handled by concurrent threads.  A call of              *)
(* OpenAIClient.generate_audio is three steps: the lookup                  *)
(* (filepath.exists()), the request to the speech backend followed by the  *)
(* opening of the file by stream_to_file, and the end of the write.        *)
(***************************************************************************)
\* The files some thread is writing: they exist and are not complete.
Incomplete ==
    {CacheFilename(threads[t].text, threads[t].voice_id) :
        t \in {u \in Threads : threads[u].pc = "writing"}}

\* The step of thread t that ends a request with the result given.
Returns(t, text, voice_id, result) ==
    [threads EXCEPT ![t] = [pc |-> "idle", text |-> text, voice_id |-> voice_id,
                            result |-> result]]

threadFrame == <<program, playerVars, afplay_running, run_log, output_dir, ret, LOCATIONS,
                 characters, desktopVars, synthesized, response>>

\* POST /api/generate-audio up to the cache check of generate_audio.
generate_audio_lookup(t, text, voice_id) ==
    /\ program = "threads"
    /\ threads[t].pc = "idle"
    /\ LET filename == CacheFilename(text, voice_id)
       IN  threads' =
             IF filename \in DOMAIN audio_cache
             THEN Returns(t, text, voice_id,
                          IF filename \in Incomplete THEN "hit_incomplete" ELSE "hit")
             ELSE [threads EXCEPT ![t] = [pc |-> "missed", text |-> text,
                                          voice_id |-> voice_id, result |-> "-"]]
    /\ UNCHANGED <<threadFrame, audio_cache, served>>

\* self.client.audio.speech.create(...) and the opening of filepath by
\* response.stream_to_file: the file exists from here on, emptied if it was
\* there already.
generate_audio_create(t, speech_ok) ==
    /\ program = "threads"
    /\ threads[t].pc = "missed"
    /\ LET text == threads[t].text
           voice_id == threads[t].voice_id
           filename == CacheFilename(text, voice_id)
       IN  IF speech_ok
           THEN /\ threads' = [threads EXCEPT ![t].pc = "writing"]
                /\ audio_cache' =
                      [f \in DOMAIN audio_cache \cup {filename} |->
                          IF f = filename
                          THEN [text |-> text, voice |-> voice_map(voice_id)]
                          ELSE audio_cache[f]]
           ELSE /\ threads' = Returns(t, text, voice_id, "error")
                /\ UNCHANGED audio_cache
    /\ UNCHANGED <<threadFrame, served>>

\* stream_to_file has written the whole response; generate_audio returns.
generate_audio_saved(t) ==
    /\ program = "threads"
    /\ threads[t].pc = "writing"
    /\ threads' = Returns(t, threads[t].text, threads[t].voice_id, "written")
    /\ UNCHANGED <<threadFrame, audio_cache, served>>

\* GET /api/audio/<filename>.
get_audio(filename) ==
    /\ program = "threads"
    /\ served' = IF filename \in DOMAIN audio_cache
                 THEN Served(<<filename>>, 200, filename \notin Incomplete)
                 ELSE Served(<<filename>>, 404, FALSE)
    /\ UNCHANGED <<threadFrame, audio_cache, threads>>

(***************************************************************************)
(* ScriptGenerator (src/taalquest/script_generator.py)                     *)
(***************************************************************************)
\* _parse_json_response(response_text): the dict parsed, or the exception.
_parse_json_response(resp) ==
    IF resp.form \in {"array", "nobrace"} THEN [ok |-> FALSE, error |-> "ValueError"]
    ELSE IF resp.form = "garbled" THEN [ok |-> FALSE, error |-> "JSONDecodeError"]
    ELSE [ok |-> TRUE, error |-> ""]

\* The dialogue lines whose speaker is neither character: their voice is
\* random.randint(0, 1).
UnknownLines(resp) ==
    {i \in DOMAIN resp.dialogue :
        \A k \in DOMAIN resp.characters : resp.characters[k] # resp.dialogue[i].speaker}

\* _build_script(location, scenario_data); ones: the lines for which
\* random.randint(0, 1) draws 1.
_build_script(location, resp, ones) ==
    IF "situation" \notin resp.keys \/ "characters" \notin resp.keys
    THEN [ok |-> FALSE, error |-> "KeyError", script |-> None]
    ELSE IF Len(resp.characters) # 2
    THEN [ok |-> FALSE, error |-> "ValidationError", script |-> None]
    ELSE IF "dialogue" \notin resp.keys
    THEN [ok |-> FALSE, error |-> "KeyError", script |-> None]
    ELSE IF Len(resp.dialogue) < MinLines \/ Len(resp.dialogue) > MaxLines
    THEN [ok |-> FALSE, error |-> "ValidationError", script |-> None]
    ELSE [ok |-> TRUE, error |-> "",
          script |-> <<[scenario |-> [location |-> location,
                                      characters |-> resp.characters],
                        dialogue |-> [i \in DOMAIN resp.dialogue |->
                            [speaker |-> resp.dialogue[i].speaker,
                             text |-> resp.dialogue[i].text,
                             voice_id |->
                                IF resp.dialogue[i].speaker = resp.characters[2] THEN 1
                                ELSE IF resp.dialogue[i].speaker = resp.characters[1] THEN 0
                                ELSE IF i \in ones THEN 1 ELSE 0]]]>>]

\* generate_scenario_script(location): the Script, or the exception raised.
generate_scenario_script(location, resp, ones) ==
    IF resp.form = "unreachable"
    THEN [ok |-> FALSE, error |-> "Failed to generate script", script |-> None]
    ELSE IF ~_parse_json_response(resp).ok
    THEN [ok |-> FALSE, error |-> "Failed to generate script", script |-> None]
    ELSE IF ~_build_script(location, resp, ones).ok
    THEN [ok |-> FALSE, error |-> "Failed to generate script", script |-> None]
    ELSE _build_script(location, resp, ones)

(***************************************************************************)
(* TTSGenerator (src/taalquest/tts_generator.py)                           *)
(***************************************************************************)
SpeechPath(text, voice_id, now) == <<now, voice_id, Md5Prefix(text, 8)>>

\* generate_speech(text, voice_id) at time now; say_ok = FALSE: the say
\* command fails or leaves no file.
generate_speech(text, voice_id, now, disk, say_ok) ==
    LET filepath == SpeechPath(text, voice_id, now)
    IN  IF filepath \in disk
        THEN [ok |-> TRUE, filepath |-> filepath, disk |-> disk, say_calls |-> 0]
        ELSE IF say_ok
        THEN [ok |-> TRUE, filepath |-> filepath, disk |-> disk \cup {filepath},
              say_calls |-> 1]
        ELSE [ok |-> FALSE, filepath |-> filepath, disk |-> disk, say_calls |-> 1]

(***************************************************************************)
(* TaalQuestApp.generate_new_scenario (src/taalquest/main.py)              *)
(***************************************************************************)
\* The loop over script.dialogue from line i on.  say fails at line fail_at;
\* the clock advances by a second before line tick_at (0: neither).
RECURSIVE SpeechFrom(_, _, _, _, _, _, _)
SpeechFrom(dialogue, i, fail_at, tick_at, now, disk, audio_files) ==
    IF i > Len(dialogue)
    THEN [ok |-> TRUE, audio_files |-> audio_files, disk |-> disk, now |-> now]
    ELSE LET t == IF i = tick_at /\ now < MaxClock THEN now + 1 ELSE now
             r == generate_speech(dialogue[i].text, dialogue[i].voice_id, t, disk,
                                  i # fail_at)
         IN  IF ~r.ok
             THEN [ok |-> FALSE, audio_files |-> audio_files, disk |-> r.disk, now |-> t]
             ELSE SpeechFrom(dialogue, i + 1, fail_at, tick_at, t, r.disk,
                             Append(audio_files, r.filepath))

\* available_locations as it would be without the filter on last_location_id.
available_locations_NoExclusion == LOCATIONS

\* The locations generate_new_scenario can pick.
available_locations ==
    LET available == SelectSeq(LOCATIONS, LAMBDA loc : loc.id # last_location_id)
    IN  IF available = <<>> THEN LOCATIONS ELSE available

\* How a call of generate_new_scenario went: whether it reached the end, the
\* stage it failed at, the location it picked, last_location_id before it,
\* and what the backends did.
Outcome(ok, stage, location, previous, backend) ==
    [ok |-> ok, stage |-> stage, location |-> location, previous |-> previous,
     backend |-> backend]

\* The loop as it would be if it put each new file at the head of the list.
generate_all_speech_Prepending(dialogue, fail_at, tick_at, now, disk) ==
    LET a == SpeechFrom(dialogue, 1, fail_at, tick_at, now, disk, <<>>)
        n == Len(a.audio_files)
    IN  [a EXCEPT !.audio_files = [i \in 1..n |-> a.audio_files[n + 1 - i]]]

\* The whole loop: the audio files of a dialogue, in order.
generate_all_speech(dialogue, fail_at, tick_at, now, disk) ==
    SpeechFrom(dialogue, 1, fail_at, tick_at, now, disk, <<>>)

TaalQuestApp_generate_new_scenario(resp, ones, fail_at, tick_at) ==
    /\ \E location \in Range(available_locations) :
       \E s \in {generate_scenario_script(location, resp, ones)} :
          /\ last_location_id' = location.id
          /\ IF ~s.ok
             THEN /\ fail_at = 0 /\ tick_at = 0    \* the loop is not reached
                  /\ window' = "error"
                  /\ outcome' = Outcome(FALSE, "script", location.id, last_location_id,
                                        Backend(resp, fail_at))
                  /\ UNCHANGED <<current_script, current_audio_files, output_dir, clock>>
             ELSE \E a \in {generate_all_speech(s.script[1].dialogue, fail_at, tick_at,
                                                clock, output_dir)} :
                  /\ current_script' = s.script
                  /\ output_dir' = a.disk
                  /\ clock' = a.now
                  /\ IF a.ok
                     THEN /\ current_audio_files' = a.audio_files
                          /\ window' = "ready"
                          /\ outcome' = Outcome(TRUE, "done", location.id,
                                                last_location_id, Backend(resp, fail_at))
                     ELSE /\ window' = "error"
                          /\ outcome' = Outcome(FALSE, "speech", location.id,
                                                last_location_id, Backend(resp, fail_at))
                          /\ UNCHANGED current_audio_files

\* A call of generate_new_scenario while nothing is played.
generate_new_scenario(resp, ones, fail_at, tick_at) ==
    /\ program = "desktop"
    /\ TaalQuestApp_generate_new_scenario(resp, ones, fail_at, tick_at)
    /\ UNCHANGED <<program, playerVars, afplay_running, run_log, ret, LOCATIONS, characters, webVars,
                   update_timer_id>>

\* Time passes between two handlers.
Tick ==
    /\ program = "desktop"
    /\ clock < MaxClock
    /\ clock' = clock + 1
    /\ UNCHANGED <<program, playerVars, afplay_running, run_log, ret, output_dir, LOCATIONS, characters,
                   webVars, last_location_id, current_script, current_audio_files,
                   window, update_timer_id, outcome>>

(***************************************************************************)
(* TaalQuestApp: the playback handlers (src/taalquest/main.py).  Program   *)
(* "playback" is the desktop app from the moment its first scenario is     *)
(* ready; Tk runs one handler at a time, and a button's handler runs only  *)
(* while the window has the button enabled.                                *)
(***************************************************************************)
\* The response of a well-behaved language model.
PlainScenario == Doc("object", AllKeys, <<1, 2>>, MinLines, "two")

\* The states in which GameWindow has a button enabled.
PlayEnabled == window \in {"ready", "error"}
ReplayEnabled == window = "finished"
ContinueEnabled == window \in {"finished", "error"}

\* handle_play().  set_state_playing() comes before play_sequence, whose
\* FileNotFoundError nothing catches: the handler ends there.  On success
\* _schedule_playback_update polls at once, finds the process it has just
\* started running, and schedules the next poll.
TaalQuestApp_handle_play(popen_ok) ==
    IF current_audio_files = <<>>
    THEN UNCHANGED <<playerVars, ret, afplay_running, run_log, window, update_timer_id>>
    ELSE /\ AudioPlayer_play_sequence(current_audio_files, DefaultPauseMs, popen_ok)
         /\ IF ret'.result = "FileNotFoundError"
            THEN /\ window' = "playing"
                 /\ UNCHANGED update_timer_id
            ELSE IF ret'.result = "True"
            THEN /\ window' = "playing"
                 /\ update_timer_id' = TRUE
            ELSE /\ window' = "error"
                 /\ UNCHANGED update_timer_id

playbackFrame == <<program, output_dir, LOCATIONS, characters, webVars, last_location_id, current_script, current_audio_files, clock, outcome>>

handle_play(popen_ok) ==
    /\ program = "playback"
    /\ PlayEnabled
    /\ TaalQuestApp_handle_play(popen_ok)
    /\ UNCHANGED playbackFrame

handle_replay(popen_ok) ==
    /\ program = "playback"
    /\ ReplayEnabled
    /\ TaalQuestApp_handle_play(popen_ok)
    /\ UNCHANGED playbackFrame

\* _update_playback_status(), run by the timer root.after set.
_update_playback_status(popen_ok) ==
    /\ program = "playback"
    /\ update_timer_id
    /\ AudioPlayer_update_sequence_playback(popen_ok)
    /\ IF ret'.result = "True"
       THEN /\ update_timer_id' = TRUE
            /\ UNCHANGED window
       ELSE /\ window' = "finished"
            /\ update_timer_id' = FALSE
    /\ UNCHANGED playbackFrame

\* handle_continue(): stop_audio(), then generate_new_scenario().
handle_continue(resp) ==
    /\ program = "playback"
    /\ ContinueEnabled
    /\ AudioPlayer_stop_audio
    /\ TaalQuestApp_generate_new_scenario(resp, {}, 0, 0)
    /\ UNCHANGED <<program, LOCATIONS, characters, webVars, update_timer_id>>

(***************************************************************************)
(* Specification                                                           *)
(***************************************************************************)
InitPlayer ==
    /\ current_sequence = <<>>
    /\ current_index = 0
    /\ is_playing_sequence = FALSE
    /\ pause_duration_ms = DefaultPauseMs
    /\ current_process = None
    /\ ret = Ret("init", "-", "None", FALSE, FALSE, FALSE)
    /\ afplay_running = 0
    /\ run_log = <<>>

InitWeb ==
    /\ audio_cache = <<>>
    /\ synthesized = {}
    /\ response = Response("init", NoneId, NoneId, 0, None, None, <<>>, 0, 0)
    /\ threads = [t \in Threads |-> IdleThread]
    /\ served = Served(None, 0, FALSE)

InitDesktop ==
    /\ last_location_id = NoneId
    /\ current_script = None
    /\ current_audio_files = <<>>
    /\ window = "loading"
    /\ update_timer_id = FALSE
    /\ clock = 0
    /\ outcome = Outcome(FALSE, "init", NoneId, NoneId, NoBackend)

\* The desktop app with its first scenario ready: the state
\* generate_new_scenario leaves when both backends behave.
InitPlayback ==
    LET location == Location(1)
        s == generate_scenario_script(location, PlainScenario, {})
        a == generate_all_speech(s.script[1].dialogue, 0, 0, 0, {})
    IN  /\ last_location_id = location.id
        /\ current_script = s.script
        /\ current_audio_files = a.audio_files
        /\ output_dir = a.disk
        /\ window = "ready"
        /\ update_timer_id = FALSE
        /\ clock = a.now
        /\ outcome = Outcome(TRUE, "done", location.id, NoneId, Backend(PlainScenario, 0))

\* The state a program is in once it has started.
InitOf(prog) ==
    /\ program = prog
    /\ InitPlayer
    /\ InitWeb
    /\ IF prog = "playback" THEN InitPlayback ELSE InitDesktop
    /\ IF prog = "player"
       THEN output_dir \in SUBSET PlayerPaths
       ELSE prog = "playback" \/ output_dir = {}
    /\ IF prog \in {"player", "threads"}
       THEN LOCATIONS = <<>>
       ELSE \E n \in 1..MaxLocs : LOCATIONS = [i \in 1..n |-> Location(i)]
    /\ IF prog = "web"
       THEN \E n \in 0..MaxRoster : characters = Roster(n)
       ELSE characters = <<>>

Init == \E prog \in {"player", "web", "desktop", "threads", "playback"} : InitOf(prog)

NextPlayer ==
    \/ \E fp \in SeqsUpTo(PlayerPaths, MaxSeqLen), ms \in {0, DefaultPauseMs},
          ok \in BOOLEAN : play_sequence(fp, ms, ok)
    \/ \E ok \in BOOLEAN : update_sequence_playback(ok)
    \/ stop_audio
    \/ ProcessExits
    \/ \E p \in PlayerPaths : RemoveFile(p)

NextWeb ==
    \* requests of every kind, answered by a well-behaved or an unreachable
    \* language model
    \/ \E location_id \in {NoneId, EmptyId} \cup 1..(MaxLocs + 1),
          exclude_id \in {NoneId} \cup 1..MaxLocs, resp \in PlainResponses :
          generate_scenario(location_id, exclude_id, resp, 0)
    \* the plain request, answered in every way
    \/ \E resp \in Responses : \E fail_at \in FailPoints(Len(resp.dialogue)) :
          generate_scenario(NoneId, NoneId, resp, fail_at)
    \/ \E text \in Texts \cup {""}, voice_id \in {0, 1}, speech_ok \in BOOLEAN :
          generate_audio_request(text, voice_id, speech_ok)

NextDesktop ==
    \/ \E resp \in Responses : \E ones \in SUBSET UnknownLines(resp),
          fail_at \in FailPoints(Len(resp.dialogue)), tick_at \in {0, 2} :
          generate_new_scenario(resp, ones, fail_at, tick_at)
    \/ Tick

NextThreads ==
    \/ \E t \in Threads, text \in Texts, voice_id \in {0, 1} :
          generate_audio_lookup(t, text, voice_id)
    \/ \E t \in Threads, speech_ok \in BOOLEAN : generate_audio_create(t, speech_ok)
    \/ \E t \in Threads : generate_audio_saved(t)
    \/ \E text \in Texts, voice_id \in {0, 1} : get_audio(CacheFilename(text, voice_id))

NextPlayback ==
    \/ \E ok \in BOOLEAN : handle_play(ok)
    \/ \E ok \in BOOLEAN : handle_replay(ok)
    \/ \E ok \in BOOLEAN : _update_playback_status(ok)
    \/ \E resp \in PlainResponses : handle_continue(resp)
    \/ ProcessExits
    \/ \E p \in Range(current_audio_files) : RemoveFile(p)

Next == NextPlayer \/ NextWeb \/ NextDesktop \/ NextThreads \/ NextPlayback

Spec == Init /\ [][Next]_vars

\* One program at a time.
SpecPlayer == InitOf("player") /\ [][NextPlayer]_vars
SpecWeb == InitOf("web") /\ [][NextWeb]_vars
SpecDesktop == InitOf("desktop") /\ [][NextDesktop]_vars
SpecThreads == InitOf("threads") /\ [][NextThreads]_vars
SpecPlayback == InitOf("playback") /\ [][NextPlayback]_vars

\* The player driven as its docstring asks ("call this regularly in event
\* loop"): one sequence at a time, update_sequence_playback polled again and
\* again, and every afplay process exiting in the end.
NextPolled ==
    \/ \E fp \in SeqsUpTo(PlayerPaths, MaxSeqLen), ms \in {0, DefaultPauseMs},
          ok \in BOOLEAN : ~is_playing_sequence /\ play_sequence(fp, ms, ok)
    \/ \E ok \in BOOLEAN : update_sequence_playback(ok)
    \/ ProcessExits

SpecPolled ==
    /\ InitOf("player")
    /\ [][NextPolled]_vars
    /\ WF_vars(\E ok \in BOOLEAN : update_sequence_playback(ok))
    /\ WF_vars(ProcessExits)

(***************************************************************************)
(* Claims about the playback sequencer                                     *)
(***************************************************************************)
\* The poll that has just advanced past the last artifact of the sequence.
JustFinished == ret.op = "update_sequence_playback" /\ ret.completed

\* C3 (as stated): once update_sequence_playback has observed all N audio
\* processes finished, the sequencer is not playing and the progress query
\* reads 1.0.
C3_FinishedProgressIsOne ==
    JustFinished => (~is_playing_sequence /\ IsOne(get_playback_progress))

\* C3 (amended): once update_sequence_playback has advanced past the last of
\* the N artifacts, the sequencer is not playing, holds no process, its index
\* is N and the progress query reads None; the query reads 1.0 only while the
\* last artifact is the current one of a playing sequence.
C3_FinishedProgressNone ==
    /\ JustFinished =>
          /\ ~is_playing_sequence
          /\ current_process = None
          /\ current_index = Len(current_sequence)
          /\ get_playback_progress = None
    /\ IsOne(get_playback_progress) =>
          (is_playing_sequence /\ current_index + 1 = Len(current_sequence))

C3_Witness == JustFinished /\ Len(current_sequence) >= 2

\* C4: stop_audio, called in any state, leaves the sequencer Idle: no running
\* process held, not playing, index 0, the recorded sequence cleared and the
\* progress query None.
C4_StopLeavesIdle ==
    ret.op = "stop_audio" =>
        /\ ~Running(current_process)
        /\ ~is_playing_sequence
        /\ current_index = 0
        /\ current_sequence = <<>>
        /\ get_playback_progress = None

\* C5: play_sequence on an empty list returns False and on a list with any
\* file missing raises FileNotFoundError; either way no audio process is
\* started or terminated and sequence, index, pause and playing flag keep
\* their values, also while another sequence is playing.
C5_RejectedPlaySequenceChangesNothing ==
    [][(ret'.op = "play_sequence" /\ ret'.input \in {"empty", "missing"})
          => /\ ret'.result = IF ret'.input = "empty" THEN "False"
                                                      ELSE "FileNotFoundError"
             /\ ~ret'.started
             /\ ~ret'.terminated
             /\ UNCHANGED playerVars]_vars

C5_Witness ==
    /\ ret.op = "play_sequence"
    /\ ret.input = "missing"
    /\ ret.result = "FileNotFoundError"
    /\ is_playing_sequence
    /\ Running(current_process)
    /\ current_index >= 1

(***************************************************************************)
(* Claims about scenario generation                                        *)
(***************************************************************************)
\* The web handler has just answered a scenario request with a scenario.
WebScenarioReturned ==
    program = "web" /\ response.op = "generate_scenario" /\ response.status = 200

\* The desktop app's last generation reached its end.
DesktopScenarioGenerated == program = "desktop" /\ outcome.ok

\* C1: for every successfully generated scenario, web or desktop, the audio
\* list is as long as the script's dialogue and its i-th entry is the file
\* synthesized for the i-th line's text and voice.
C1_AudioMatchesDialogue ==
    /\ WebScenarioReturned =>
          LET dialogue == response.script[1].dialogue
              audio_files == response.audio_files
          IN  /\ Len(audio_files) = Len(dialogue)
              /\ \A i \in DOMAIN dialogue :
                    /\ audio_files[i] = CacheFilename(dialogue[i].text, dialogue[i].voice_id)
                    /\ audio_files[i] \in DOMAIN audio_cache
                    /\ audio_cache[audio_files[i]] =
                          [text |-> dialogue[i].text,
                           voice |-> voice_map(dialogue[i].voice_id)]
    /\ DesktopScenarioGenerated =>
          LET dialogue == current_script[1].dialogue
          IN  /\ Len(current_audio_files) = Len(dialogue)
              /\ \A i \in DOMAIN dialogue :
                    /\ current_audio_files[i] \in output_dir
                    /\ \E now \in 0..clock :
                          current_audio_files[i] =
                             SpeechPath(dialogue[i].text, dialogue[i].voice_id, now)

\* A desktop generation of MaxLines lines during which the clock ticked, so
\* that the files of equal lines bear different names.
C1_Witness ==
    /\ DesktopScenarioGenerated
    /\ Len(current_audio_files) = MaxLines
    /\ current_audio_files[1] # current_audio_files[3]

\* C2: a generate_audio call for a (text, voice_id) for which an earlier call
\* succeeded returns the filename that call returned, asks the speech backend
\* nothing and leaves the cache as it is, whatever calls came in between.
C2_RepeatedCallIsCacheHit ==
    [][(/\ response'.op = "generate_audio"
        /\ \E s \in synthesized : s[1] = response'.text /\ s[2] = response'.voice_id)
          => /\ response'.status = 200
             /\ \A s \in synthesized :
                   (s[1] = response'.text /\ s[2] = response'.voice_id)
                      => response'.filename = s[3]
             /\ response'.tts_calls = 0
             /\ audio_cache' = audio_cache]_vars

\* A cache hit on one pair while the cache holds other pairs' files too.
C2_Witness ==
    /\ response.op = "generate_audio"
    /\ response.status = 200
    /\ response.tts_calls = 0
    /\ Cardinality(DOMAIN audio_cache) >= 3

\* C6: a generate_new_scenario that fails, at the script request or at the
\* synthesis of a line, leaves current_script and current_audio_files as they
\* were before the call.
C6_FailedGenerationKeepsScenario ==
    [][(program = "desktop" /\ ~outcome'.ok /\ outcome'.stage \in {"script", "speech"})
          => UNCHANGED <<current_script, current_audio_files>>]_vars

\* C7: when no location id is requested, a pool of two or more locations
\* never yields the excluded id (web: exclude_location_id; desktop: the id
\* the previous generation chose), and a pool of one yields its location.
C7_NeverTheExcludedLocation ==
    /\ (program = "web" /\ response.op = "generate_scenario"
            /\ Falsy(response.location_id)) =>
          /\ response.chosen # None
          /\ Len(LOCATIONS) >= 2 => response.chosen[1].id # response.exclude_id
          /\ Len(LOCATIONS) = 1 => response.chosen[1] = LOCATIONS[1]
    /\ (program = "desktop" /\ outcome.stage # "init") =>
          /\ last_location_id = outcome.location
          /\ Len(LOCATIONS) >= 2 => outcome.location # outcome.previous
          /\ Len(LOCATIONS) = 1 => outcome.location = LOCATIONS[1].id

\* A desktop generation that followed another, with two locations to pick from.
C7_Witness ==
    /\ program = "desktop"
    /\ Len(LOCATIONS) >= 2
    /\ outcome.stage # "init"
    /\ outcome.previous # NoneId

\* The backends behaved during the request: the language model answered with
\* a JSON object holding the three keys and two characters, and the speech
\* backend did not fail.
WellBehaved(backend) ==
    /\ backend.form = "object"
    /\ backend.keys = AllKeys
    /\ backend.nchars = 2
    /\ ~backend.speech_fails

\* C8: a web scenario request that names a location id is answered with a
\* scenario of exactly that location, also when the id is the excluded one;
\* when no location has the id it is answered 404 with no request made to
\* the language model or the speech backend.
C8_GivenLocationIsServed ==
    (program = "web" /\ response.op = "generate_scenario"
        /\ ~Falsy(response.location_id)) =>
       IF FindLocation(response.location_id) = None
       THEN /\ response.status = 404
            /\ response.llm_calls = 0
            /\ response.tts_calls = 0
       ELSE WellBehaved(response.backend) =>
               /\ response.status = 200
               /\ response.chosen[1].id = response.location_id

\* The response is not a JSON object holding situation, two characters and
\* dialogue.  (An object inside a fenced block or inside prose is one
\* ScriptGenerator is meant to find.)
Malformed(backend) ==
    \/ backend.form \in {"array", "nobrace", "garbled"}
    \/ backend.keys # AllKeys
    \/ backend.nchars # 2

\* C9: when the language model's response is not a valid JSON object or
\* lacks situation, two characters or dialogue, script generation fails and
\* returns no script, on the web (OpenAIClient.generate_script) and on the
\* desktop (ScriptGenerator.generate_scenario_script).
C9_MalformedResponseFails ==
    /\ (program = "web" /\ response.op = "generate_scenario"
            /\ response.chosen # None /\ Malformed(response.backend)) =>
          (response.status = 500 /\ response.script = None)
    /\ (program = "desktop" /\ outcome.stage # "init" /\ Malformed(outcome.backend)) =>
          (~outcome.ok /\ outcome.stage = "script")

\* The speakers of a dialogue.
Speakers(dialogue) == {dialogue[i].speaker : i \in DOMAIN dialogue}

WithinShape(dialogue) ==
    /\ MinLines <= Len(dialogue)
    /\ Len(dialogue) <= MaxLines
    /\ Cardinality(Speakers(dialogue)) <= 2

\* C10: every script that script generation returns, on the web and on the
\* desktop, has between 4 and 8 dialogue lines and at most 2 distinct speakers.
C10_ScriptWithinShape ==
    /\ WebScenarioReturned => WithinShape(response.script[1].dialogue)
    /\ (program = "desktop" /\ current_script # None) =>
          WithinShape(current_script[1].dialogue)

\* C11: when the synthesis of a dialogue line fails during a web scenario
\* request, the request is answered with an error, without a script and
\* without any audio file; generate_audio was called for the lines up to the
\* failing one, in order, and for none after it.
C11_SynthesisFailureFailsRequest ==
    (program = "web" /\ response.op = "generate_scenario" /\ response.failed_line > 0) =>
        /\ response.status = 500
        /\ response.script = None
        /\ response.audio_files = <<>>
        /\ response.called = [i \in 1..response.failed_line |-> i]
        /\ response.tts_calls <= response.failed_line

\* The second line fails after the first one was synthesized and cached.
C11_Witness ==
    /\ program = "web"
    /\ response.op = "generate_scenario"
    /\ response.failed_line = 2
    /\ response.tts_calls = 2
    /\ Cardinality(DOMAIN audio_cache) = 1

(***************************************************************************)
(* Further claims about the playback sequencer                             *)
(***************************************************************************)
\* C12: while the sequencer is Playing, 0 <= current_index <
\* len(current_sequence) and the progress query returns (current_index + 1) /
\* len(current_sequence), a value in (0, 1]; in Idle and in Finished the query
\* returns None.
C12_PlayingIndexInRange ==
    program = "player" =>
        IF is_playing_sequence
        THEN /\ 0 <= current_index
             /\ current_index < Len(current_sequence)
             /\ get_playback_progress = <<current_index + 1, Len(current_sequence)>>
             /\ 0 < get_playback_progress[1]
             /\ get_playback_progress[1] <= get_playback_progress[2]
        ELSE get_playback_progress = None

\* Playing the last artifact of a sequence of MaxSeqLen artifacts.
C12_Witness ==
    /\ is_playing_sequence
    /\ Len(current_sequence) = MaxSeqLen
    /\ current_index = MaxSeqLen - 1
    /\ Running(current_process)

\* C13: play_sequence with a valid list while another sequence is Playing
\* terminates the running audio process before it starts the new first
\* artifact, and leaves the player on the new list at index 0; at every moment
\* at most one audio process started by the player is running, and it is the
\* one the player holds.
C13_OneProcessAtATime ==
    /\ [](/\ afplay_running \in {0, 1}
          /\ afplay_running = 1 <=> Running(current_process))
    /\ [][(ret'.op = "play_sequence" /\ ret'.input = "valid" /\ is_playing_sequence)
             => /\ Running(current_process) => ret'.terminated
                /\ is_playing_sequence'
                /\ current_index' = 0
                /\ current_sequence' # <<>>
                /\ ret'.started =>
                      /\ Running(current_process')
                      /\ current_process'[1].file = current_sequence'[1]
                /\ ~ret'.started => ~Running(current_process')]_vars

\* A second play_sequence has replaced a running process by a new one.
C13_Witness ==
    /\ ret.op = "play_sequence"
    /\ ret.terminated
    /\ ret.started
    /\ Running(current_process)
    /\ afplay_running = 1

(***************************************************************************)
(* Claims about the audio caches                                           *)
(***************************************************************************)
\* C14: TTSGenerator.generate_speech resolves a (text, voice_id) pair to the
\* same path whenever it is called, so a pair is synthesized once: the output
\* directory never holds two files made for the same text and voice.
C14_OnePathPerPair ==
    program = "desktop" =>
        \A f, g \in output_dir : (f[2] = g[2] /\ f[3] = g[3]) => f = g

\* C15: once a file exists in the cache, no generate_audio call, sequential
\* or concurrent, overwrites, changes or deletes it: the cached keys only
\* grow, the content under a key stays what it is and a complete file stays
\* complete.
C15_CachedFilesNeverChange ==
    [][\A f \in DOMAIN audio_cache :
          /\ f \in DOMAIN audio_cache'
          /\ audio_cache'[f] = audio_cache[f]
          /\ f \notin Incomplete => f \notin Incomplete']_vars

\* C19: with concurrent requests for the same (text, voice_id), no request
\* gets a cache hit on a file whose write has not completed, and none is sent
\* such a file by GET /api/audio/<filename>.
C19_NoIncompleteFileSeen ==
    program = "threads" =>
        /\ \A t \in Threads : threads[t].result # "hit_incomplete"
        /\ served.status = 200 => served.complete

(***************************************************************************)
(* Claims about characters and voices                                      *)
(***************************************************************************)
\* The characters _select_characters_for_location draws from for a location:
\* those associated with it when there are two or more, else the roster.
CharacterPool(location_id) ==
    LET assoc == {c \in Range(characters) : location_id \in c.locations}
    IN  IF Cardinality(assoc) >= 2 THEN assoc ELSE Range(characters)

\* C16: for every roster and location, _select_characters_for_location hands
\* generate_script exactly 2 distinct characters, both from the characters
\* associated with the location when it has two or more, else from the roster.
C16_TwoCharactersSelected ==
    (program = "web" /\ response.op = "generate_scenario" /\ response.chosen # None) =>
        /\ Len(response.selected) = 2
        /\ response.selected[1].id # response.selected[2].id
        /\ \A i \in 1..2 :
              \E c \in CharacterPool(response.chosen[1].id) :
                 c.id = response.selected[i].id

\* Every line spoken by the k-th of the two names carries voice k - 1.
VoicesByPosition(names, dialogue) ==
    \A i \in DOMAIN dialogue : \A k \in 1..2 :
        dialogue[i].speaker = names[k] => dialogue[i].voice_id = k - 1

\* C17: in every generated script the first character has voice 0 and the
\* second voice 1, and every line spoken by one of the two carries that
\* character's voice, on the web and on the desktop.
C17_VoicesFollowPosition ==
    /\ WebScenarioReturned =>
          LET cs == response.script[1].characters
          IN  /\ cs[1].voice_id = 0
              /\ cs[2].voice_id = 1
              /\ VoicesByPosition([k \in 1..2 |-> cs[k].name],
                                  response.script[1].dialogue)
    /\ (program = "desktop" /\ current_script # None) =>
          VoicesByPosition(current_script[1].scenario.characters,
                           current_script[1].dialogue)

PlaybackFailed ==
    /\ program = "playback"
    /\ ret.op = "play_sequence"
    /\ ret.result \in {"False", "FileNotFoundError"}

\* C20: in the desktop app every playback failure in handle_play (an audio
\* file missing at play time, or the audio process failing to launch) ends
\* with the window in its error state, and the window is never in the
\* playing state, with Play, Replay and Continue all disabled, unless a
\* playback poll is pending.
C20_PlaybackFailureShown ==
    /\ PlaybackFailed => window = "error"
    /\ program = "playback" /\ window = "playing" => update_timer_id

(***************************************************************************)
(* Claims about a whole playback run                                       *)
(***************************************************************************)
\* C21: during one playback run the files of the sequence are started one
\* at a time in list order, each exactly once, none skipped or replayed
\* (the indices started so far are 0, 1, 2, ... without a gap), and the
\* sequence finishes only after its last file was started as well, also
\* when a start fails in the middle of the sequence.
C21_StartedInOrderEachOnce ==
    program = "player" =>
        /\ \A k \in DOMAIN run_log : run_log[k] = k - 1
        /\ JustFinished => Len(run_log) = Len(current_sequence)

\* C22: whenever the sequencer is playing, if update_sequence_playback keeps
\* being polled and every audio process that was started exits, the
\* sequencer eventually finishes (is_playing_sequence is false again and
\* update returns False), also after a play_sequence call whose first file
\* failed to launch.
C22_PlayingEventuallyFinishes == is_playing_sequence ~> ~is_playing_sequence

=============================================================================
